---- MODULE Spec2Model ----
(***************************************************************************)
(* The Table component (Table.tsx): its view state, the filter / search /  *)
(* sort / pagination pipeline derived from it on every render, and the     *)
(* MultiSelectDropdown popover that the filter row renders for dropdown    *)
(* columns.                                                                *)
(*                                                                         *)
(* A state of the model is a committed render: the Table's useState cells, *)
(* the useState cells of every mounted MultiSelectDropdown instance, and   *)
(* the passive effects (useEffect) that the commit has scheduled and that  *)
(* have not run yet.  One action is one event handler together with the    *)
(* render it causes.                                                       *)
(***************************************************************************)
EXTENDS Integers, Sequences, FiniteSets, TLC

VARIABLES
    visibleCols,   \* Table: useState<Set<keyof T>>   (column chooser)
    search,        \* Table: useState("")             (global search text)
    filters,       \* Table: useState<FilterState>    (per-column filter entries)
    showFilters,   \* Table: useState(false)          (filter row shown)
    sort,          \* Table: useState<{key, direction} | null>
    page,          \* Table: useState(1)
    rowsPerPage,   \* Table: useState(pageSize)
    dd,            \* per dropdown column: the MultiSelectDropdown instance
                   \*   [inst, open, menuStyle, mounted, pending]
    scrollY,       \* host page: vertical scroll offset (moves every trigger rect)
    openRect,      \* history: per dropdown column, the trigger rectangle at the
                   \*   latest closed -> open transition
    engine,        \* host: the algorithm behind Array.prototype.sort
    pageBefore     \* history: the page number at the latest change of the page
                   \*   size, 0 before the first

vars == <<visibleCols, search, filters, showFilters, sort, page, rowsPerPage,
          dd, scrollY, openRect, engine, pageBefore>>

tableVars == <<visibleCols, search, filters, showFilters, sort, page, rowsPerPage>>

-----------------------------------------------------------------------------
(* JavaScript values.  A string is the sequence of its characters, so that *)
(* String(), toLowerCase(), trim(), includes(), Number() and new Date()    *)
(* are computed character by character as the engine computes them.        *)

Null      == [t |-> "null",      n |-> 0, s |-> <<>>]
Undefined == [t |-> "undefined", n |-> 0, s |-> <<>>]
NaN       == [t |-> "NaN",       n |-> 0, s |-> <<>>]
Num(n)    == [t |-> "number",    n |-> n, s |-> <<>>]
Str(s)    == [t |-> "string",    n |-> 0, s |-> s]

Digits == <<"0", "1", "2", "3", "4", "5", "6", "7", "8", "9">>

IsDigit(c) == \E i \in 1..10 : Digits[i] = c

DigitVal(c) == (CHOOSE i \in 1..10 : Digits[i] = c) - 1

RECURSIVE NatToChars(_)
NatToChars(n) ==
    IF n < 10 THEN <<Digits[n + 1]>>
    ELSE NatToChars(n \div 10) \o <<Digits[(n % 10) + 1]>>

\* String(v) for the values a row field holds
String(v) ==
    CASE v.t = "string"    -> v.s
      [] v.t = "number"    -> IF v.n < 0 THEN <<"-">> \o NatToChars(-v.n) ELSE NatToChars(v.n)
      [] v.t = "NaN"       -> <<"N", "a", "N">>
      [] v.t = "null"      -> <<"n", "u", "l", "l">>
      [] v.t = "undefined" -> <<"u", "n", "d", "e", "f", "i", "n", "e", "d">>

UpperCase == <<"A", "B", "C", "D", "E", "F", "G", "H", "I", "J", "K", "L", "M",
               "N", "O", "P", "Q", "R", "S", "T", "U", "V", "W", "X", "Y", "Z">>
LowerCase == <<"a", "b", "c", "d", "e", "f", "g", "h", "i", "j", "k", "l", "m",
               "n", "o", "p", "q", "r", "s", "t", "u", "v", "w", "x", "y", "z">>

LowerChar(c) ==
    IF \E i \in 1..Len(UpperCase) : UpperCase[i] = c
    THEN LowerCase[CHOOSE i \in 1..Len(UpperCase) : UpperCase[i] = c]
    ELSE c

\* String.prototype.toLowerCase
toLowerCase(s) == [i \in 1..Len(s) |-> LowerChar(s[i])]

RECURSIVE trimStart(_)
trimStart(s) ==
    IF s # <<>> /\ Head(s) = " " THEN trimStart(Tail(s)) ELSE s

RECURSIVE trimEnd(_)
trimEnd(s) ==
    IF s # <<>> /\ s[Len(s)] = " " THEN trimEnd(SubSeq(s, 1, Len(s) - 1)) ELSE s

\* String.prototype.trim
trim(s) == trimEnd(trimStart(s))

\* String.prototype.includes: needle occurs in hay as a contiguous substring
includes(hay, needle) ==
    \E i \in 0..(Len(hay) - Len(needle)) : SubSeq(hay, i + 1, i + Len(needle)) = needle

RECURSIVE DigitsToNat(_)
DigitsToNat(s) ==
    IF s = <<>> THEN 0 ELSE DigitsToNat(SubSeq(s, 1, Len(s) - 1)) * 10 + DigitVal(s[Len(s)])

AllDigits(s) == s # <<>> /\ \A i \in 1..Len(s) : IsDigit(s[i])

\* Number(string): whitespace is trimmed, "" is 0, a decimal integer literal is
\* its value, text that is no numeric literal is NaN (the texts of this model
\* are integer literals or hold letters)
NumberOfChars(s) ==
    LET u == trim(s) IN
    IF u = <<>> THEN Num(0)
    ELSE IF AllDigits(u) THEN Num(DigitsToNat(u))
    ELSE IF Head(u) = "-" /\ AllDigits(Tail(u)) THEN Num(-DigitsToNat(Tail(u)))
    ELSE NaN

\* Number(v) for a row field
Number(v) ==
    CASE v.t = "number"    -> v
      [] v.t = "NaN"       -> NaN
      [] v.t = "string"    -> NumberOfChars(v.s)
      [] v.t = "null"      -> Num(0)
      [] v.t = "undefined" -> NaN

\* JavaScript truthiness of a row field
Truthy(v) ==
    CASE v.t = "number"    -> v.n # 0
      [] v.t = "string"    -> v.s # <<>>
      [] OTHER             -> FALSE

IsLeapYear(y) == (y % 4 = 0 /\ y % 100 # 0) \/ y % 400 = 0

DaysInMonth(y, m) ==
    IF m = 2 THEN (IF IsLeapYear(y) THEN 29 ELSE 28)
    ELSE IF m \in {4, 6, 9, 11} THEN 30 ELSE 31

\* new Date(string), kept as far as the comparisons <, <=, >, >= need it: an ISO
\* calendar date YYYY-MM-DD becomes a number ordered as its time value is, any
\* other text is an Invalid Date (time value NaN)
DateOfChars(s) ==
    IF /\ Len(s) = 10
       /\ s[5] = "-" /\ s[8] = "-"
       /\ \A i \in {1, 2, 3, 4, 6, 7, 9, 10} : IsDigit(s[i])
       /\ DigitsToNat(SubSeq(s, 6, 7)) \in 1..12
       /\ DigitsToNat(SubSeq(s, 9, 10))
             \in 1..DaysInMonth(DigitsToNat(SubSeq(s, 1, 4)), DigitsToNat(SubSeq(s, 6, 7)))
    THEN Num(DigitsToNat(SubSeq(s, 1, 4)) * 10000
             + DigitsToNat(SubSeq(s, 6, 7)) * 100
             + DigitsToNat(SubSeq(s, 9, 10)))
    ELSE NaN

\* strict comparison in the place of <=
NumLeStrict(a, b) == a.t = "number" /\ b.t = "number" /\ a.n < b.n

\* relational comparison of two numbers / time values: false when either is NaN
NumLt(a, b) == a.t = "number" /\ b.t = "number" /\ a.n < b.n
NumLe(a, b) == a.t = "number" /\ b.t = "number" /\ a.n <= b.n
NumEq(a, b) == a.t = "number" /\ b.t = "number" /\ a.n = b.n

-----------------------------------------------------------------------------
(* The props of the Table: column declarations and rows.                   *)

NoOptions == <<>>

\* a TableColumn<T>; an optional property that is not given is "undefined"
Column(key, type, filterType, filterOptions) ==
    [key |-> key, type |-> type, filterType |-> filterType,
     filterOptions |-> filterOptions, filterable |-> "undefined",
     width |-> <<>>, sticky |-> "undefined"]

\* width is not given (an empty string is as falsy as undefined)
NoWidth == <<>>

\* the column with its `width` and `sticky` options
Layout(col, width, sticky) == [col EXCEPT !.width = width, !.sticky = sticky]

\* the `columns` prop, in declaration order
columns ==
    << Layout(Column("name",   "string",    "undefined", NoOptions),
              <<"1", "5", "0", "p", "x">>, "undefined"),
       Layout(Column("age",    "integer",   "undefined", NoOptions),
              NoWidth, "undefined"),
       Layout(Column("joined", "date",      "undefined", NoOptions),
              <<"2", "0", "%">>, "undefined"),
       Layout(Column("role",   "undefined", "dropdown",
                     << <<"A", "d", "m", "i", "n">>, <<"U", "s", "e", "r">> >>),
              <<"9", "9", ".", "5", "p", "x">>, "true"),
       Layout(Column("level",  "integer",   "dropdown",  << <<"1">>, <<"2">> >>),
              <<"8", "0", "p", "x">>, "undefined") >>

ColIndex == 1..Len(columns)

ColKeys == {columns[i].key : i \in ColIndex}

ColumnOf(key) == columns[CHOOSE i \in ColIndex : columns[i].key = key]

Row(id, name, age, joined, role, level) ==
    [id |-> id, name |-> name, age |-> age, joined |-> joined, role |-> role,
     level |-> level]

\* the `data` prop: rows with string, numeric, null and missing fields
data ==
    << Row(1, Str(<<"A", "l">>), Num(30),
              Str(<<"2", "0", "2", "0", "-", "0", "6", "-", "0", "1">>),
              Str(<<"A", "d", "m", "i", "n">>), Num(1)),
       Row(2, Str(<<"B", "o">>), Num(41),
              Str(<<"2", "0", "2", "1", "-", "0", "1", "-", "1", "0">>),
              Str(<<"U", "s", "e", "r">>), Num(2)),
       Row(3, Null, Null, Null, Null, Null),
       Row(4, Str(<<"a", "l", "a">>), Num(25),
              Str(<<"2", "0", "1", "9", "-", "0", "7", "-", "2", "2">>),
              Str(<<"A", "d", "m", "i", "n">>), Num(1)),
       Row(5, Undefined, Undefined, Undefined, Undefined, Undefined),
       Row(6, Str(<<"C", "y">>), Num(30),
              Str(<<"2", "0", "2", "0", "-", "0", "6", "-", "0", "1">>),
              Str(<<"U", "s", "e", "r">>), Num(2)) >>

\* the `pageSize` prop
pageSize == 5

\* the `defaultHiddenColumns` prop
defaultHiddenColumns == {}

\* the `stickyColumnCount` prop
stickyColumnCount == 2

-----------------------------------------------------------------------------
(* FilterState: per column key an entry {op, value, value2?} or nothing.   *)
(* value is a string, a string[] (dropdown) or absent.                     *)

FUndef  == [k |-> "undefined", s |-> <<>>, a |-> <<>>]
FStr(s) == [k |-> "string",    s |-> s,    a |-> <<>>]
FArr(a) == [k |-> "array",     s |-> <<>>, a |-> a]

\* filters[key] === undefined
NoEntry == [op |-> "undefined", value |-> FUndef, value2 |-> FUndef]

Entry(op, value, value2) == [op |-> op, value |-> value, value2 |-> value2]

\* truthiness with the text "0" taken for false as the number 0 is
FTruthyNonZero(v) == v.k = "array" \/ (v.k = "string" /\ v.s # <<>> /\ v.s # <<"0">>)

\* truthiness of filter.value / filter.value2: an array is truthy even when empty
FTruthy(v) == v.k = "array" \/ (v.k = "string" /\ v.s # <<>>)

\* Number(filter.value); an array is converted through its join(",")
FNumber(v) ==
    CASE v.k = "string"    -> NumberOfChars(v.s)
      [] v.k = "undefined" -> NaN
      [] v.k = "array"     -> IF Len(v.a) = 0 THEN Num(0)
                              ELSE IF Len(v.a) = 1 THEN NumberOfChars(v.a[1])
                              ELSE NaN

getDropdownFilterValue(val) ==
    IF ~FTruthy(val) THEN <<>>
    ELSE IF val.k = "array" THEN val.a
    ELSE <<val.s>>

InSeq(x, seq) == \E i \in 1..Len(seq) : seq[i] = x

\* rowDate: row[col.key] ? new Date(row[col.key]) : null
\* (the date fields of `data` are strings, null or missing)
rowDate(row, key) ==
    IF Truthy(row[key]) THEN DateOfChars(row[key].s) ELSE Null

\* one iteration of columns.forEach in filteredData
ColumnFilter(filtered, col, f) ==
    LET filter == f[col.key] IN
    IF filter = NoEntry \/ ~FTruthy(filter.value) THEN filtered
    ELSE IF col.type = "date" THEN
        IF /\ filter.op = "range"
           /\ filter.value.k = "string" /\ FTruthy(filter.value)
           /\ FTruthy(filter.value2) /\ filter.value2.k = "string"
        THEN SelectSeq(filtered, LAMBDA row :
                 /\ rowDate(row, col.key) # Null
                 /\ NumLe(DateOfChars(filter.value.s), rowDate(row, col.key))
                 /\ NumLe(rowDate(row, col.key), DateOfChars(filter.value2.s)))
        ELSE IF filter.op = "before" /\ filter.value.k = "string" /\ FTruthy(filter.value)
        THEN SelectSeq(filtered, LAMBDA row :
                 /\ rowDate(row, col.key) # Null
                 /\ NumLt(rowDate(row, col.key), DateOfChars(filter.value.s)))
        ELSE IF filter.op = "after" /\ filter.value.k = "string" /\ FTruthy(filter.value)
        THEN SelectSeq(filtered, LAMBDA row :
                 /\ rowDate(row, col.key) # Null
                 /\ NumLt(DateOfChars(filter.value.s), rowDate(row, col.key)))
        ELSE filtered
    ELSE IF col.type = "integer" THEN
        IF filter.op = "=" /\ FTruthy(filter.value)
        THEN SelectSeq(filtered, LAMBDA row :
                 NumEq(Number(row[col.key]), FNumber(filter.value)))
        ELSE IF filter.op = "<" /\ FTruthy(filter.value)
        THEN SelectSeq(filtered, LAMBDA row :
                 NumLt(Number(row[col.key]), FNumber(filter.value)))
        ELSE IF filter.op = ">" /\ FTruthy(filter.value)
        THEN SelectSeq(filtered, LAMBDA row :
                 NumLt(FNumber(filter.value), Number(row[col.key])))
        ELSE filtered
    ELSE IF col.filterType = "dropdown" THEN
        IF Len(getDropdownFilterValue(filter.value)) > 0
        THEN SelectSeq(filtered, LAMBDA row :
                 InSeq(String(row[col.key]), getDropdownFilterValue(filter.value)))
        ELSE filtered
    ELSE
        IF filter.value.k = "string"
        THEN SelectSeq(filtered, LAMBDA row :
                 includes(toLowerCase(String(row[col.key])), toLowerCase(filter.value.s)))
        ELSE filtered

\* the global search step of filteredData
GlobalSearch(rows, s, visible) ==
    IF trim(s) # <<>>
    THEN SelectSeq(rows, LAMBDA row :
             \E key \in visible :
                 includes(toLowerCase(String(row[key])), toLowerCase(s)))
    ELSE rows

\* columns.forEach((col) => ...) over the declared columns, from column i on
RECURSIVE ColumnFilters(_, _, _)
ColumnFilters(filtered, f, i) ==
    IF i > Len(columns) THEN filtered
    ELSE ColumnFilters(ColumnFilter(filtered, columns[i], f), f, i + 1)

\* filteredData with the per-column filters of hidden columns skipped
FilteredDataVisibleOnly(rows, s, f, visible) ==
    ColumnFilters(GlobalSearch(rows, s, visible),
                  [k \in DOMAIN f |-> IF k \in visible THEN f[k] ELSE NoEntry], 1)

\* the filteredData memo as a function of its dependencies
FilteredData(rows, s, f, visible) ==
    ColumnFilters(GlobalSearch(rows, s, visible), f, 1)

filteredData == FilteredData(data, search, filters, visibleCols)

-----------------------------------------------------------------------------
(* What a render derives from the view state.                              *)

Max(a, b) == IF a >= b THEN a ELSE b
Min(a, b) == IF a <= b THEN a ELSE b

\* sort === null
NoSort == [key |-> "undefined", direction |-> "undefined"]

\* the sort state { key, direction }
SortBy(key, direction) == [key |-> key, direction |-> direction]

\* String.prototype.localeCompare for the characters of `data`: the collation
\* orders space and punctuation before digits before letters, compares letters
\* without regard to case first, and on a tie puts the lower-case letter first
Collation ==
    <<" ", "-", "0", "1", "2", "3", "4", "5", "6", "7", "8", "9">> \o LowerCase

PrimaryRank(c) == CHOOSE i \in 1..Len(Collation) : Collation[i] = LowerChar(c)

RECURSIVE PrimaryCompare(_, _)
PrimaryCompare(a, b) ==
    IF a = <<>> /\ b = <<>> THEN 0
    ELSE IF a = <<>> THEN -1
    ELSE IF b = <<>> THEN 1
    ELSE IF PrimaryRank(Head(a)) < PrimaryRank(Head(b)) THEN -1
    ELSE IF PrimaryRank(Head(a)) > PrimaryRank(Head(b)) THEN 1
    ELSE PrimaryCompare(Tail(a), Tail(b))

RECURSIVE CaseCompare(_, _)
CaseCompare(a, b) ==
    IF a = <<>> THEN 0
    ELSE IF Head(a) = Head(b) THEN CaseCompare(Tail(a), Tail(b))
    ELSE IF Head(a) = LowerChar(Head(a)) THEN -1
    ELSE 1

localeCompare(a, b) ==
    IF PrimaryCompare(a, b) # 0 THEN PrimaryCompare(a, b) ELSE CaseCompare(a, b)

\* the comparator with null placed by the direction as every other value is
comparefnNullByDirection(a, b, s) ==
    LET aValue == a[s.key]
        bValue == b[s.key]
    IN  IF aValue \in {Null, Undefined} THEN (IF s.direction = "asc" THEN 1 ELSE -1)
        ELSE IF bValue \in {Null, Undefined} THEN (IF s.direction = "asc" THEN -1 ELSE 1)
        ELSE IF aValue.t = "number" /\ bValue.t = "number"
             THEN (IF s.direction = "asc" THEN aValue.n - bValue.n ELSE bValue.n - aValue.n)
        ELSE IF s.direction = "asc" THEN localeCompare(String(aValue), String(bValue))
        ELSE localeCompare(String(bValue), String(aValue))

\* the comparator with numbers compared without regard to the direction
comparefnNumbersAscending(a, b, s) ==
    LET aValue == a[s.key]
        bValue == b[s.key]
    IN  IF aValue \in {Null, Undefined} THEN 1
        ELSE IF bValue \in {Null, Undefined} THEN -1
        ELSE IF aValue.t = "number" /\ bValue.t = "number"
             THEN aValue.n - bValue.n
        ELSE IF s.direction = "asc" THEN localeCompare(String(aValue), String(bValue))
        ELSE localeCompare(String(bValue), String(aValue))

\* the comparator passed to sort: (a, b) => ... with sort = s
\* (aValue == null holds for null and for undefined)
comparefn(a, b, s) ==
    LET aValue == a[s.key]
        bValue == b[s.key]
    IN  IF aValue \in {Null, Undefined} THEN 1
        ELSE IF bValue \in {Null, Undefined} THEN -1
        ELSE IF aValue.t = "number" /\ bValue.t = "number"
             THEN (IF s.direction = "asc" THEN aValue.n - bValue.n ELSE bValue.n - aValue.n)
        ELSE IF s.direction = "asc" THEN localeCompare(String(aValue), String(bValue))
        ELSE localeCompare(String(bValue), String(aValue))

\* Array.prototype.sort calls the comparator as its engine's algorithm does.
\* The comparator answers 1 for two rows whose field is null in either order,
\* so it is not a consistent comparator and the order of the result is the
\* engine's: the model takes the two algorithms that engines use, a binary
\* insertion sort behind a run detection (the short-array path of TimSort) and
\* a merge sort over insertion-sorted chunks.

Reverse(seq) == [i \in 1..Len(seq) |-> seq[Len(seq) + 1 - i]]

\* the end of the run that starts the array: idx is the element compared with
\* its predecessor
RECURSIVE RunEnd(_, _, _, _)
RunEnd(arr, s, idx, isDescending) ==
    IF idx > Len(arr) THEN Len(arr)
    ELSE LET order == comparefn(arr[idx], arr[idx - 1], s)
         IN  IF (isDescending /\ order >= 0) \/ (~isDescending /\ order < 0)
             THEN idx - 1
             ELSE RunEnd(arr, s, idx + 1, isDescending)

\* the initial run, reversed in place when it is strictly descending
CountAndMakeRun(arr, s) ==
    LET isDescending == comparefn(arr[2], arr[1], s) < 0
        runLength    == RunEnd(arr, s, 3, isDescending)
    IN  [work |-> IF isDescending
                  THEN Reverse(SubSeq(arr, 1, runLength)) \o SubSeq(arr, runLength + 1, Len(arr))
                  ELSE arr,
         runLength |-> runLength]

\* binary search of the place of pivot in the sorted prefix; left and right
\* count elements from 0
RECURSIVE InsertionPoint(_, _, _, _, _)
InsertionPoint(arr, s, pivot, left, right) ==
    IF left >= right THEN left
    ELSE LET mid == left + ((right - left) \div 2)
         IN  IF comparefn(pivot, arr[mid + 1], s) < 0
             THEN InsertionPoint(arr, s, pivot, left, mid)
             ELSE InsertionPoint(arr, s, pivot, mid + 1, right)

RECURSIVE BinaryInsertionSort(_, _, _)
BinaryInsertionSort(arr, s, start) ==
    IF start >= Len(arr) THEN arr
    ELSE LET pivot == arr[start + 1]
             left  == InsertionPoint(arr, s, pivot, 0, start)
         IN  BinaryInsertionSort(SubSeq(arr, 1, left) \o <<pivot>>
                                     \o SubSeq(arr, left + 1, start)
                                     \o SubSeq(arr, start + 2, Len(arr)),
                                 s, start + 1)

\* TimSort for an array shorter than its minimal run length of 64 elements
TimSort(arr, s) ==
    IF Len(arr) < 2 THEN arr
    ELSE BinaryInsertionSort(CountAndMakeRun(arr, s).work, s,
                             CountAndMakeRun(arr, s).runLength)

\* insertion sort step: element j (counted from 0) sinks towards lo while its
\* predecessor compares greater
RECURSIVE Sink(_, _, _, _)
Sink(arr, s, j, lo) ==
    IF comparefn(arr[j], arr[j + 1], s) <= 0 THEN arr
    ELSE LET swapped == [arr EXCEPT ![j] = arr[j + 1], ![j + 1] = arr[j]]
         IN  IF j - 1 = lo THEN swapped ELSE Sink(swapped, s, j - 1, lo)

RECURSIVE InsertionSortChunk(_, _, _, _, _)
InsertionSortChunk(arr, s, lo, i, hi) ==
    IF i >= hi THEN arr
    ELSE InsertionSortChunk(Sink(arr, s, i, lo), s, lo, i + 1, hi)

\* chunks of 3 elements are sorted by insertion
RECURSIVE InsertionSortChunks(_, _, _)
InsertionSortChunks(arr, s, lo) ==
    IF lo >= Len(arr) THEN arr
    ELSE InsertionSortChunks(
             InsertionSortChunk(arr, s, lo, lo + 1, Min(lo + 3, Len(arr))), s, lo + 3)

RECURSIVE Merge(_, _, _)
Merge(a, b, s) ==
    IF a = <<>> THEN b
    ELSE IF b = <<>> THEN a
    ELSE IF comparefn(Head(a), Head(b), s) <= 0
         THEN <<Head(a)>> \o Merge(Tail(a), b, s)
         ELSE <<Head(b)>> \o Merge(a, Tail(b), s)

\* two adjacent runs: left as they are when already in order, merged otherwise
MergeArrayRuns(run1, run2, s) ==
    IF comparefn(run1[Len(run1)], run2[1], s) <= 0 THEN run1 \o run2
    ELSE Merge(run1, run2, s)

RECURSIVE MergePass(_, _, _, _)
MergePass(arr, s, run, lo) ==
    IF lo >= Len(arr) THEN <<>>
    ELSE IF lo + run >= Len(arr) THEN SubSeq(arr, lo + 1, Len(arr))
    ELSE MergeArrayRuns(SubSeq(arr, lo + 1, lo + run),
                        SubSeq(arr, lo + run + 1, lo + run + Min(run, Len(arr) - lo - run)),
                        s)
             \o MergePass(arr, s, run, lo + 2 * run)

RECURSIVE MergeRuns(_, _, _)
MergeRuns(arr, s, run) ==
    IF run >= Len(arr) THEN arr
    ELSE MergeRuns(MergePass(arr, s, run, 0), s, 2 * run)

MergeSort(arr, s) ==
    IF Len(arr) <= 1 THEN arr
    ELSE MergeRuns(InsertionSortChunks(arr, s, 0), s, 3)

Engines == {"TimSort", "MergeSort"}

\* [...arr].sort(comparefn) on the engine e
ArraySort(e, arr, s) ==
    IF e = "TimSort" THEN TimSort(arr, s) ELSE MergeSort(arr, s)

\* the sortedData memo as a function of its dependencies
SortedData(e, rows, s) ==
    IF s = NoSort THEN rows ELSE ArraySort(e, rows, s)

sortedData == SortedData(engine, filteredData, sort)


\* Math.ceil(a / b) for a >= 0, b > 0
CeilDiv(a, b) == (a + b - 1) \div b

\* the page count with the division rounded down
PageCountFloor(rows, perPage) == Max(1, Len(rows) \div perPage)

PageCount(rows, perPage) == Max(1, CeilDiv(Len(rows), perPage))

pageCount == PageCount(sortedData, rowsPerPage)

\* Array.prototype.slice(from, to) with 0 <= from
Slice(seq, from, to) == SubSeq(seq, from + 1, Min(to, Len(seq)))

\* the rows of page p: sortedData.slice((p - 1) * rowsPerPage, p * rowsPerPage)
PageSlice(rows, perPage, p) == Slice(rows, (p - 1) * perPage, p * perPage)

\* enablePagination is on
pagedData == PageSlice(sortedData, rowsPerPage, page)

\* the <option>s of the rows-per-page select
RowsPerPageOptions == {5, 10, 20, 50, 100}

\* the filter row: col.filterType || (date -> 'date', integer -> 'integer', 'search')
filterType(col) ==
    IF col.filterType # "undefined" THEN col.filterType
    ELSE IF col.type = "date" THEN "date"
    ELSE IF col.type = "integer" THEN "integer"
    ELSE "search"

\* every dropdown column of `columns` declares filterOptions, so the options
\* derived from the data (columnDropdownOptions) are never consulted
dropdownOptions(col) ==
    IF col.filterType = "dropdown" THEN col.filterOptions ELSE <<>>

\* which control the filter row renders in the column's cell
FilterCell(col) ==
    IF col.filterable = "false" THEN "none"
    ELSE IF filterType(col) = "dropdown" /\ Len(dropdownOptions(col)) > 0 THEN "dropdown"
    ELSE IF filterType(col) = "date" THEN "date"
    ELSE IF filterType(col) = "integer" THEN "integer"
    ELSE "search"

\* the initializer of visibleCols for a defaultHiddenColumns list
InitialVisible(hidden) ==
    IF hidden = {} THEN ColKeys ELSE {key \in ColKeys : key \notin hidden}

\* the columns a header, filter or body row renders:
\* columns.filter((col) => visibleCols.has(col.key))
VisibleColumns(visible) == SelectSeq(columns, LAMBDA col : col.key \in visible)

\* String.prototype.endsWith
endsWith(s, suffix) ==
    Len(s) >= Len(suffix) /\ SubSeq(s, Len(s) - Len(suffix) + 1, Len(s)) = suffix

\* the longest prefix of s made of decimal digits
RECURSIVE DigitPrefix(_)
DigitPrefix(s) ==
    IF s # <<>> /\ IsDigit(Head(s)) THEN <<Head(s)>> \o DigitPrefix(Tail(s)) ELSE <<>>

\* parseInt(string): leading white space skipped, an optional sign, then the
\* decimal digits up to the first other character; NaN when there is no digit
parseInt(s) ==
    LET u        == trimStart(s)
        negative == u # <<>> /\ Head(u) = "-"
        body     == IF u # <<>> /\ Head(u) \in {"-", "+"} THEN Tail(u) ELSE u
    IN  IF DigitPrefix(body) = <<>> THEN NaN
        ELSE Num((IF negative THEN -1 ELSE 1) * DigitsToNat(DigitPrefix(body)))

\* a + b on numbers
Plus(a, b) == IF a.t = "number" /\ b.t = "number" THEN Num(a.n + b.n) ELSE NaN

\* let w = 120
FallbackWidth == 120

\* the width getStickyLeft takes for a column: the fallback 120 when the width
\* is absent or ends with %, parseInt of a width that ends with px
StickyWidth(col) ==
    IF col.width # <<>> /\ endsWith(col.width, <<"p", "x">>) THEN parseInt(col.width)
    ELSE Num(FallbackWidth)

\* getStickyLeft(cols, idx): idx counts the displayed columns from 0
RECURSIVE getStickyLeft(_, _)
getStickyLeft(cols, idx) ==
    IF idx = 0 THEN Num(0)
    ELSE Plus(getStickyLeft(cols, idx - 1), StickyWidth(cols[idx]))

\* a style property that is undefined
NoValue == <<>>

\* position and left of thStyle / filterThStyle / tdStyle of the displayed
\* column at colIdx (from 0) for a stickyColumnCount of count
CellStyle(cols, colIdx, count) ==
    [position |-> IF count > 0 /\ colIdx < count THEN <<"s", "t", "i", "c", "k", "y">>
                  ELSE NoValue,
     left     |-> IF count > 0 /\ colIdx < count
                  THEN String(getStickyLeft(cols, colIdx)) \o <<"p", "x">>
                  ELSE NoValue]

\* the columns whose filter cell is a MultiSelectDropdown
DropdownKeys == {k \in ColKeys : FilterCell(ColumnOf(k)) = "dropdown"}

\* the filter cell of column key is in the rendered tree
CellRendered(show, visible, key) == show /\ key \in visible

-----------------------------------------------------------------------------
(* MultiSelectDropdown instances.                                          *)

NoStyle == [set |-> FALSE, top |-> 0, left |-> 0, minWidth |-> 0]

NoRect == [top |-> 0, left |-> 0, width |-> 0, height |-> 0]

\* style={{ minHeight: 28, minWidth: 120 }} of the trigger
TriggerMinHeight == 28
TriggerMinWidth == 120

\* top: rect.bottom + 2
MenuGap == 2

\* btnRef.current.getBoundingClientRect(): viewport coordinates, so the page's
\* scroll offset moves it; the column's position in the row gives its left edge
TriggerRect(key, scroll) ==
    [top    |-> TriggerMinHeight - scroll,
     left   |-> TriggerMinWidth * (CHOOSE i \in ColIndex : columns[i].key = key),
     width  |-> TriggerMinWidth,
     height |-> TriggerMinHeight]

\* the menuStyle the [open] effect sets from the measured rectangle
MenuPosition(rect) ==
    [set |-> TRUE, top |-> rect.top + rect.height + MenuGap, left |-> rect.left,
     minWidth |-> rect.width]

\* no instance at this place of the tree
Unmounted ==
    [alive |-> FALSE, open |-> FALSE, menuStyle |-> NoStyle, mounted |-> FALSE,
     pending |-> {}]

\* a newly mounted instance: useState(false), useState({}), useState(false), and
\* its effects scheduled
Mounted ==
    [alive |-> TRUE, open |-> FALSE, menuStyle |-> NoStyle, mounted |-> FALSE,
     pending |-> {"mount"}]

\* MultiSelectDropdown is declared inside the body of Table, so every render of
\* Table creates a new component type: React unmounts the instance of the old
\* type and mounts one of the new type, with fresh state
RenderTable(show, visible) ==
    [k \in DropdownKeys |-> IF CellRendered(show, visible, k) THEN Mounted ELSE Unmounted]

\* open && mounted && createPortal(...): the menu is in the document
MenuDisplayed(k) == dd[k].alive /\ dd[k].open /\ dd[k].mounted

\* passive effects are flushed before the next discrete event is handled
NoPending == \A k \in DropdownKeys : dd[k].pending = {}

\* the effects of one instance: setMounted(true) on mount; on a change of `open`,
\* if (open && btnRef.current) setMenuStyle(from the rectangle measured now)
EffectsOf(inst, key) ==
    [inst EXCEPT
        !.mounted   = IF "mount" \in inst.pending THEN TRUE ELSE @,
        !.menuStyle = IF inst.open THEN MenuPosition(TriggerRect(key, scrollY)) ELSE @,
        !.pending   = {}]

\* the value prop of the dropdown of column key
DropdownValue(f, key) == getDropdownFilterValue(f[key].value)

RemoveFrom(seq, x) == SelectSeq(seq, LAMBDA v : v # x)

\* MultiSelectDropdown.handleSelect: the array passed to onChange
handleSelect(value, option) ==
    IF InSeq(option, value) THEN RemoveFrom(value, option) ELSE Append(value, option)

\* some option is selected
someSelected(value, options) == Len(value) > 0 /\ Len(options) > 0

allSelected(value, options) == Len(value) = Len(options) /\ Len(options) > 0

\* MultiSelectDropdown.handleSelectAll: the array passed to onChange
DropdownSelectAll(value, options) ==
    IF allSelected(value, options) THEN <<>> ELSE options

\* onChange of the dropdown filter cell: setFilters(prev => ({...prev, [key]: {op: 'in', value: selected}}))
DropdownOnChange(f, key, selected) ==
    [f EXCEPT ![key] = Entry("in", FArr(selected), FUndef)]

-----------------------------------------------------------------------------
(* The state after the first render.                                       *)

Init ==
    /\ visibleCols = InitialVisible(defaultHiddenColumns)
    /\ search = <<>>
    /\ filters = [k \in ColKeys |-> NoEntry]
    /\ showFilters = FALSE
    /\ sort = NoSort
    /\ page = 1
    /\ rowsPerPage = pageSize
    /\ dd = RenderTable(FALSE, ColKeys \ defaultHiddenColumns)
    /\ scrollY = 0
    /\ openRect = [k \in DropdownKeys |-> NoRect]
    /\ engine \in Engines
    /\ pageBefore = 0

-----------------------------------------------------------------------------
(* Events of a MultiSelectDropdown and of the host page.                   *)

\* the scheduled passive effects of every instance run
RunEffects ==
    /\ ~NoPending
    /\ dd' = [k \in DropdownKeys |->
                 IF dd[k].pending # {} THEN EffectsOf(dd[k], k) ELSE dd[k]]
    /\ UNCHANGED <<tableVars, scrollY, openRect, engine, pageBefore>>

\* the trigger with a click that only opens
TriggerClickOpens(k) ==
    /\ NoPending
    /\ dd[k].alive
    /\ dd' = [dd EXCEPT ![k].open = TRUE, ![k].pending = {"open"}]
    /\ openRect' = IF dd[k].open THEN openRect
                   ELSE [openRect EXCEPT ![k] = TriggerRect(k, scrollY)]
    /\ UNCHANGED <<tableVars, scrollY, engine, pageBefore>>

\* onClick of the trigger: setOpen((o) => !o)
TriggerClick(k) ==
    /\ NoPending
    /\ dd[k].alive
    /\ dd' = [dd EXCEPT ![k].open = ~dd[k].open, ![k].pending = {"open"}]
    /\ openRect' = IF dd[k].open THEN openRect
                   ELSE [openRect EXCEPT ![k] = TriggerRect(k, scrollY)]
    /\ UNCHANGED <<tableVars, scrollY, engine, pageBefore>>

\* where a mousedown can land
OutsideTarget      == [kind |-> "outside",   key |-> "undefined", option |-> <<>>]
TriggerTarget(k)   == [kind |-> "trigger",   key |-> k,           option |-> <<>>]
MenuTarget(k)      == [kind |-> "menu",      key |-> k,           option |-> <<>>]
SelectAllTarget(k) == [kind |-> "selectAll", key |-> k,           option |-> <<>>]
OptionTarget(k, o) == [kind |-> "option",    key |-> k,           option |-> o]

OptionsOf(k) == {dropdownOptions(ColumnOf(k))[i] : i \in 1..Len(dropdownOptions(ColumnOf(k)))}

\* the elements in the document a mousedown can hit; the menu and its items
\* exist only while the menu is displayed
Targets ==
    {OutsideTarget}
    \cup {TriggerTarget(k) : k \in {j \in DropdownKeys : dd[j].alive}}
    \cup {MenuTarget(k) : k \in {j \in DropdownKeys : MenuDisplayed(j)}}
    \cup {SelectAllTarget(k) : k \in {j \in DropdownKeys : MenuDisplayed(j)}}
    \cup UNION {{OptionTarget(k, o) : o \in OptionsOf(k)} :
                   k \in {j \in DropdownKeys : MenuDisplayed(j)}}

\* the listener with the menu alone as the inside: menuRef.current.contains(e.target)
InsideMenuOnly(target, k) ==
    target.kind \notin {"outside", "trigger"} /\ target.key = k

\* btnRef.current.contains(e.target) || menuRef.current.contains(e.target)
InsideOf(target, k) == target.kind # "outside" /\ target.key = k

\* the document's capture-phase mousedown listener of instance k (registered
\* while it is open): outside of its trigger and its menu, setOpen(false)
handle(inst, k, target) ==
    IF inst.open /\ ~InsideOf(target, k)
    THEN [inst EXCEPT !.open = FALSE, !.pending = {"open"}]
    ELSE inst

\* the array an item's onMouseDown passes to onChange
Selected(target) ==
    IF target.kind = "selectAll"
    THEN DropdownSelectAll(DropdownValue(filters, target.key),
                           dropdownOptions(ColumnOf(target.key)))
    ELSE handleSelect(DropdownValue(filters, target.key), target.option)

\* a mousedown: first the capture-phase listeners of the open instances, then
\* the onMouseDown of the element hit.  An item's onMouseDown calls onChange,
\* which sets the Table's filters and so renders the Table
MouseDown(target) ==
    /\ NoPending
    /\ target \in Targets
    /\ IF target.kind \in {"selectAll", "option"}
       THEN /\ filters' = DropdownOnChange(filters, target.key, Selected(target))
            /\ dd' = RenderTable(showFilters, visibleCols)
       ELSE /\ filters' = filters
            /\ dd' = [k \in DropdownKeys |-> handle(dd[k], k, target)]
    /\ UNCHANGED <<visibleCols, search, showFilters, sort, page, rowsPerPage,
                   scrollY, openRect, engine, pageBefore>>

\* keydown with e.key === 'Escape': the listener of every open instance
EscapeKey ==
    /\ NoPending
    /\ \E k \in DropdownKeys : dd[k].open
    /\ dd' = [k \in DropdownKeys |->
                 IF dd[k].open THEN [dd[k] EXCEPT !.open = FALSE, !.pending = {"open"}]
                 ELSE dd[k]]
    /\ UNCHANGED <<tableVars, scrollY, openRect, engine, pageBefore>>

\* the page scrolls: every trigger moves in the viewport
Scroll(y) ==
    /\ NoPending
    /\ y # scrollY
    /\ scrollY' = y
    /\ UNCHANGED <<tableVars, dd, openRect, engine, pageBefore>>

-----------------------------------------------------------------------------
(* Events of the Table.  Each sets state of the Table, so each renders it. *)

\* onChange of the search input
SetSearch(s) ==
    /\ NoPending
    /\ s # search
    /\ search' = s
    /\ dd' = RenderTable(showFilters, visibleCols)
    /\ UNCHANGED <<visibleCols, filters, showFilters, sort, page, rowsPerPage,
                   scrollY, openRect, engine, pageBefore>>

\* onClick of "Show Filters" / "Hide Filters"
ToggleShowFilters ==
    /\ NoPending
    /\ showFilters' = ~showFilters
    /\ dd' = RenderTable(~showFilters, visibleCols)
    /\ UNCHANGED <<visibleCols, search, filters, sort, page, rowsPerPage,
                   scrollY, openRect, engine, pageBefore>>

\* a toggle that replaces the set by the key alone when it adds
ToggleKeyAlone(set, key) == IF key \in set THEN set \ {key} ELSE {key}

ToggleKey(set, key) == IF key \in set THEN set \ {key} ELSE set \cup {key}

\* onChange of a column's checkbox in the column chooser
handleColToggle(key) ==
    /\ NoPending
    /\ visibleCols' = ToggleKey(visibleCols, key)
    /\ dd' = RenderTable(showFilters, ToggleKey(visibleCols, key))
    /\ UNCHANGED <<search, filters, showFilters, sort, page, rowsPerPage,
                   scrollY, openRect, engine, pageBefore>>

SelectAllCols(set) == IF Cardinality(set) = Len(columns) THEN {} ELSE ColKeys

\* onChange of the "All" checkbox in the column chooser
handleSelectAll ==
    /\ NoPending
    /\ visibleCols' = SelectAllCols(visibleCols)
    /\ dd' = RenderTable(showFilters, SelectAllCols(visibleCols))
    /\ UNCHANGED <<search, filters, showFilters, sort, page, rowsPerPage,
                   scrollY, openRect, engine, pageBefore>>

\* the text an input of the filter row shows: filters[key]?.value || ''
ShownValue(v) == IF v.k = "string" THEN v.s ELSE <<>>

\* filters[key]?.op || dflt
OpOr(entry, dflt) == IF entry.op = "undefined" THEN dflt ELSE entry.op

\* setFilters(prev => ...) of a filter-row control of column key
SetFilter(key, kind, entry) ==
    /\ NoPending
    /\ CellRendered(showFilters, visibleCols, key)
    /\ FilterCell(ColumnOf(key)) = kind
    /\ filters' = [filters EXCEPT ![key] = entry]
    /\ dd' = RenderTable(showFilters, visibleCols)
    /\ UNCHANGED <<visibleCols, search, showFilters, sort, page, rowsPerPage,
                   scrollY, openRect, engine, pageBefore>>

\* the text filter input: {op: 'contains', value: e.target.value}
TextFilterChange(key, v) ==
    /\ v # ShownValue(filters[key].value)
    /\ SetFilter(key, "search", Entry("contains", FStr(v), FUndef))

\* the operator select of a date filter: {...prev[key], op, value: '', value2: ''}
DateOpChange(key, op) ==
    /\ op # OpOr(filters[key], "range")
    /\ SetFilter(key, "date", Entry(op, FStr(<<>>), FStr(<<>>)))

\* the first date input: {...prev[key], op, value: e.target.value}
DateValueChange(key, v) ==
    /\ v # ShownValue(filters[key].value)
    /\ SetFilter(key, "date",
                 Entry(OpOr(filters[key], "range"), FStr(v), filters[key].value2))

\* the second date input, rendered when op is range: {...prev[key], op, value2: e.target.value}
DateValue2Change(key, v) ==
    /\ OpOr(filters[key], "range") = "range"
    /\ v # ShownValue(filters[key].value2)
    /\ SetFilter(key, "date",
                 Entry(OpOr(filters[key], "range"), filters[key].value, FStr(v)))

\* the operator select of an integer filter: {...prev[key], op}
IntOpChange(key, op) ==
    /\ op # OpOr(filters[key], "=")
    /\ SetFilter(key, "integer", Entry(op, filters[key].value, filters[key].value2))

\* the number input: {...prev[key], op: filters[key]?.op || '=', value: e.target.value}
IntValueChange(key, v) ==
    /\ v # ShownValue(filters[key].value)
    /\ SetFilter(key, "integer",
                 Entry(OpOr(filters[key], "="), FStr(v), filters[key].value2))

\* the header click that never removes the sort: asc and desc in turn
NextSortAlternating(prev, key) ==
    IF prev = NoSort \/ prev.key # key THEN SortBy(key, "asc")
    ELSE IF prev.direction = "asc" THEN SortBy(key, "desc")
    ELSE SortBy(key, "asc")

\* setSort((prev) => ...) of the header of column key
NextSort(prev, key) ==
    IF prev = NoSort \/ prev.key # key THEN SortBy(key, "asc")
    ELSE IF prev.direction = "asc" THEN SortBy(key, "desc")
    ELSE NoSort

\* onClick of a column header; headers are rendered for the visible columns
HeaderClick(key) ==
    /\ NoPending
    /\ key \in visibleCols
    /\ sort' = NextSort(sort, key)
    /\ dd' = RenderTable(showFilters, visibleCols)
    /\ UNCHANGED <<visibleCols, search, filters, showFilters, page, rowsPerPage,
                   scrollY, openRect, engine, pageBefore>>

\* the rows-per-page select with the page number left as it is
SetRowsPerPageOnly(n) ==
    /\ NoPending
    /\ n \in RowsPerPageOptions
    /\ n # rowsPerPage
    /\ rowsPerPage' = n
    /\ pageBefore' = page
    /\ dd' = RenderTable(showFilters, visibleCols)
    /\ UNCHANGED <<visibleCols, search, filters, showFilters, sort, page, scrollY,
                   openRect, engine>>

\* onChange of the rows-per-page select: setRowsPerPage(n); setPage(1)
SetRowsPerPage(n) ==
    /\ NoPending
    /\ n \in RowsPerPageOptions
    /\ n # rowsPerPage
    /\ rowsPerPage' = n
    /\ page' = 1
    /\ pageBefore' = page
    /\ dd' = RenderTable(showFilters, visibleCols)
    /\ UNCHANGED <<visibleCols, search, filters, showFilters, sort, scrollY, openRect,
                   engine>>

\* onClick of Previous (disabled when page === 1): setPage(p => Math.max(1, p - 1))
PreviousPage ==
    /\ NoPending
    /\ page # 1
    /\ page' = Max(1, page - 1)
    /\ dd' = RenderTable(showFilters, visibleCols)
    /\ UNCHANGED <<visibleCols, search, filters, showFilters, sort, rowsPerPage,
                   scrollY, openRect, engine, pageBefore>>

\* onClick of Next (disabled when page === pageCount): setPage(p => Math.min(pageCount, p + 1))
NextPage ==
    /\ NoPending
    /\ page # pageCount
    /\ page' = Min(pageCount, page + 1)
    /\ dd' = RenderTable(showFilters, visibleCols)
    /\ UNCHANGED <<visibleCols, search, filters, showFilters, sort, rowsPerPage,
                   scrollY, openRect, engine, pageBefore>>

-----------------------------------------------------------------------------
(* Specifications.  Each takes the Table from its first render through a   *)
(* subset of its events, with the texts typed drawn from small sets.       *)

MaxScroll == 1

\* the filter row and its dropdowns
PopoverNext ==
    \/ RunEffects
    \/ \E k \in DropdownKeys : TriggerClick(k)
    \/ \E target \in Targets : MouseDown(target)
    \/ EscapeKey
    \/ \E y \in 0..MaxScroll : Scroll(y)
    \/ ToggleShowFilters

SpecPopover == Init /\ [][PopoverNext]_vars

-----------------------------------------------------------------------------
(* Claims about the popover.                                               *)

ItemTargets == {target \in Targets : target.kind \in {"selectAll", "option"}}

\* C1: while the popover of a dropdown is open, a mousedown on one of its
\* options or on its "select all" row leaves that popover open, the render of
\* the Table that the filter update causes included.
C1_SelectionKeepsOpen ==
    [][\A target \in ItemTargets :
           MouseDown(target) => dd'[target.key].open]_vars

\* C2: with the popover of k open, a mousedown outside of its trigger and its
\* menu closes it, and a mousedown inside its menu or its trigger leaves it open.
C2_OutsideClosesInsideKeeps ==
    [][\A target \in Targets : \A k \in DropdownKeys :
           (dd[k].open /\ MouseDown(target)) =>
               (dd'[k].open <=> InsideOf(target, k))]_vars

\* C4: whenever the menu of k is displayed with a computed position, that
\* position is the one computed from the trigger rectangle of this open, never
\* one computed during an earlier open.
C4_PositionFromThisOpen ==
    \A k \in DropdownKeys :
        (MenuDisplayed(k) /\ dd[k].menuStyle.set) =>
            dd[k].menuStyle = MenuPosition(openRect[k])

\* C15: a click on the trigger of a popover opens it when closed and closes it
\* when open; the Escape key closes an open popover and leaves a closed one as
\* it is; no event but the click on its trigger opens a closed popover.
C15_PopoverTransitions ==
    [][\A k \in DropdownKeys :
           /\ TriggerClick(k) => (dd'[k].open <=> ~dd[k].open)
           /\ EscapeKey => (~dd'[k].open /\ (~dd[k].open => dd'[k] = dd[k]))
           /\ (~dd[k].open /\ dd'[k].open) => TriggerClick(k)]_vars

\* a popover that was opened and has just been closed while another one, never
\* opened, stays closed
C15_Witness ==
    \E k, j \in DropdownKeys :
        /\ dd[k].alive /\ ~dd[k].open /\ "open" \in dd[k].pending
        /\ openRect[k] # NoRect
        /\ dd[j].alive /\ ~dd[j].open /\ openRect[j] = NoRect

\* C25: a click on the trigger of an open popover is a mousedown on the
\* trigger and then a click on it.  The mousedown leaves the instance as it
\* is, open and with no effect scheduled; the effects that other instances
\* flush between the two events leave it open; the click then closes it.  So
\* the popover is toggled once, by the click, and ends closed.
C25_TriggerClickClosesOnce ==
    [][\A k \in DropdownKeys :
           /\ (dd[k].open /\ MouseDown(TriggerTarget(k))) =>
                  (dd'[k] = dd[k] /\ dd'[k].alive /\ dd'[k].open /\ dd'[k].pending = {})
           /\ (dd[k].open /\ dd[k].pending = {} /\ RunEffects) => dd'[k] = dd[k]
           /\ (dd[k].open /\ TriggerClick(k)) => (dd'[k].alive /\ ~dd'[k].open)]_vars

\* a popover that was opened, displayed at its computed position and then
\* closed, its effects flushed, while the instance stayed mounted
C25_Witness ==
    \E k \in DropdownKeys :
        /\ dd[k].alive /\ dd[k].mounted
        /\ ~dd[k].open /\ dd[k].pending = {}
        /\ dd[k].menuStyle.set
        /\ openRect[k] # NoRect

SetOf(seq) == {seq[i] : i \in 1..Len(seq)}

\* the selected set of the dropdown of column k under the filter entries f
SelectedSet(f, k) == SetOf(DropdownValue(f, k))

\* C16: a mousedown on an option adds it to the selected set when absent and
\* removes it when present; a mousedown on "select all" empties the selected
\* set when every option is selected and otherwise makes it the full option
\* list; the selected set of every dropdown stays a subset of its options.
C16_SelectionContract ==
    [][\A target \in ItemTargets :
           MouseDown(target) =>
               /\ target.kind = "option" =>
                      SelectedSet(filters', target.key) =
                          IF target.option \in SelectedSet(filters, target.key)
                          THEN SelectedSet(filters, target.key) \ {target.option}
                          ELSE SelectedSet(filters, target.key) \cup {target.option}
               /\ target.kind = "selectAll" =>
                      SelectedSet(filters', target.key) =
                          IF SelectedSet(filters, target.key) = OptionsOf(target.key)
                          THEN {}
                          ELSE OptionsOf(target.key)
               /\ \A k \in DropdownKeys : SelectedSet(filters', k) \subseteq OptionsOf(k)]_vars

\* one dropdown has every option selected, another had options selected and
\* all of them deselected again
C16_Witness ==
    \E k, j \in DropdownKeys :
        /\ SelectedSet(filters, k) = OptionsOf(k)
        /\ filters[j].op = "in"
        /\ SelectedSet(filters, j) = {}

-----------------------------------------------------------------------------
(* Pagination under search and filter changes.                             *)

\* texts typed into the search input
SearchInputs ==
    { <<>>, <<" ">>, <<"a", "l">>, <<"a", "l", " ">>, <<"A", "L">> }

\* texts typed into a text filter input
TextInputs == { <<>>, <<"a", "l">>, <<"n">> }

PagingNext ==
    \/ RunEffects
    \/ ToggleShowFilters
    \/ \E s \in SearchInputs : SetSearch(s)
    \/ \E v \in TextInputs : TextFilterChange("name", v)
    \/ \E n \in RowsPerPageOptions : SetRowsPerPage(n)
    \/ PreviousPage
    \/ NextPage

SpecPaging == Init /\ [][PagingNext]_vars

\* C3: in every reachable view state the current page number lies in
\* 1..pageCount.
C3_PageInRange == page \in 1..pageCount

\* C14: every change of the page size sets the page number to 1, whatever it
\* was before.
C14_PageSizeResetsPage ==
    [][rowsPerPage' # rowsPerPage => page' = 1]_vars

\* the page size was changed while page 2 was shown
C14_Witness ==
    /\ pageBefore = 2
    /\ rowsPerPage # pageSize
    /\ page = 1

-----------------------------------------------------------------------------
(* The filter row: text, integer and date filters.                         *)

IntOps == {"=", "<", ">"}

DateOps == {"range", "before", "after"}

\* texts delivered by the number input (e.target.value); a host without the
\* typed control delivers whatever was typed
IntInputs == { <<>>, <<"0">>, <<"3", "0">>, <<"a", "b", "c">> }

\* texts delivered by a date input
DateInputs ==
    { <<>>,
      <<"2", "0", "2", "0", "-", "0", "6", "-", "0", "1">>,
      <<"2", "0", "2", "1", "-", "0", "1", "-", "1", "0">>,
      <<"s", "o", "o", "n">> }

FilterNext ==
    \/ RunEffects
    \/ ToggleShowFilters
    \/ \E key \in ColKeys, v \in TextInputs : TextFilterChange(key, v)
    \/ \E key \in ColKeys, op \in IntOps : IntOpChange(key, op)
    \/ \E key \in ColKeys, v \in IntInputs : IntValueChange(key, v)
    \/ \E key \in ColKeys, op \in DateOps : DateOpChange(key, op)
    \/ \E key \in ColKeys, v \in DateInputs : DateValueChange(key, v)
    \/ \E key \in ColKeys, v \in DateInputs : DateValue2Change(key, v)

SpecFilter == Init /\ [][FilterNext]_vars

\* the column as the kind of its filter cell names it
ResolvedColumn(col) ==
    CASE filterType(col) = "dropdown" -> [col EXCEPT !.type = "undefined"]
      [] filterType(col) = "date"     -> [col EXCEPT !.type = "date", !.filterType = "undefined"]
      [] filterType(col) = "integer"  -> [col EXCEPT !.type = "integer", !.filterType = "undefined"]
      [] OTHER                        -> [col EXCEPT !.type = "string", !.filterType = "undefined"]

RECURSIVE FiltersByFilterType(_, _, _)
FiltersByFilterType(filtered, f, i) ==
    IF i > Len(columns) THEN filtered
    ELSE FiltersByFilterType(ColumnFilter(filtered, ResolvedColumn(columns[i]), f), f, i + 1)

\* C5: every column's filter entry is evaluated as the kind that the explicit
\* filterType names, and as the type-derived kind only when there is none (a
\* column of type integer with filterType dropdown is filtered by membership in
\* the selected options).
C5_ExplicitFilterTypeDecides ==
    filteredData = FiltersByFilterType(GlobalSearch(data, search, visibleCols), filters, 1)

Unset(f, key) == [f EXCEPT ![key] = NoEntry]

NonEmptyText(v) == v.k = "string" /\ v.s # <<>>

\* non-numeric text in an integer filter, unparseable text in a date filter
MalformedInput(key) ==
    \/ /\ FilterCell(ColumnOf(key)) = "integer"
       /\ NonEmptyText(filters[key].value)
       /\ NumberOfChars(filters[key].value.s) = NaN
    \/ /\ FilterCell(ColumnOf(key)) = "date"
       /\ \/ NonEmptyText(filters[key].value) /\ DateOfChars(filters[key].value.s) = NaN
          \/ NonEmptyText(filters[key].value2) /\ DateOfChars(filters[key].value2.s) = NaN

\* C6: a column whose filter input is malformed filters nothing: the filtered
\* rows are those obtained with that column's entry unset.
C6_MalformedInputIsNoOp ==
    \A key \in ColKeys :
        MalformedInput(key) =>
            filteredData = FilteredData(data, search, Unset(filters, key), visibleCols)

\* a value-based filter of the column is in force
ActiveFilter(key) ==
    LET cell == FilterCell(ColumnOf(key))
        e    == filters[key]
    IN  \/ cell = "search" /\ NonEmptyText(e.value)
        \/ cell = "dropdown" /\ Len(getDropdownFilterValue(e.value)) > 0
        \/ cell = "integer" /\ e.op \in IntOps /\ NonEmptyText(e.value)
        \/ cell = "date" /\ e.op = "range" /\ NonEmptyText(e.value) /\ NonEmptyText(e.value2)
        \/ cell = "date" /\ e.op \in {"before", "after"} /\ NonEmptyText(e.value)

\* C7: under an active value-based filter of a column, no row whose field for
\* that column is null or missing is in the filtered result.
C7_MissingFieldExcluded ==
    \A key \in ColKeys :
        ActiveFilter(key) =>
            \A i \in 1..Len(filteredData) : filteredData[i][key] \notin {Null, Undefined}

\* the text of a filter bound; empty when the bound is absent
BoundText(v) == IF v.k = "string" THEN v.s ELSE <<>>

\* d is a date and lies on or after lo / before hi / ...; a text that is no
\* date compares false with everything
OnOrAfter(d, lo) == d.t = "number" /\ lo.t = "number" /\ d.n >= lo.n
Before(d, hi) == d.t = "number" /\ hi.t = "number" /\ d.n < hi.n

\* the field of the row as a date; Null when the row has no text there
FieldDate(row, key) ==
    IF row[key].t = "string" /\ row[key].s # <<>> THEN DateOfChars(row[key].s) ELSE Null

\* what the date filter entry e of column key asks of a row
DateClause(e, key, row) ==
    LET d  == FieldDate(row, key)
        v  == DateOfChars(BoundText(e.value))
        v2 == DateOfChars(BoundText(e.value2))
    IN  IF e.op = "range" /\ BoundText(e.value) # <<>> /\ BoundText(e.value2) # <<>>
        THEN OnOrAfter(d, v) /\ OnOrAfter(v2, d)
        ELSE IF e.op = "before" /\ BoundText(e.value) # <<>> THEN Before(d, v)
        ELSE IF e.op = "after" /\ BoundText(e.value) # <<>> THEN Before(v, d)
        ELSE TRUE

\* the columns whose filter cell is a date filter
DateFilterKeys == {key \in ColKeys : FilterCell(ColumnOf(key)) = "date"}

\* C18: the date filter of a column keeps, of the rows the other filters keep,
\* those with value <= fieldDate <= value2 under op range with both bounds
\* set, those with fieldDate < value under op before, those with fieldDate >
\* value under op after, and every row when a bound the op needs is missing.
C18_DateFilter ==
    \A key \in DateFilterKeys :
        filteredData =
            SelectSeq(FilteredData(data, search, Unset(filters, key), visibleCols),
                      LAMBDA row : DateClause(filters[key], key, row))

\* a range whose lower bound is the date of a row, with rows on both sides of it
C18_Witness ==
    \E key \in DateFilterKeys :
        /\ filters[key].op = "range"
        /\ DateOfChars(BoundText(filters[key].value)) # NaN
        /\ DateOfChars(BoundText(filters[key].value2)) # NaN
        /\ \E i \in 1..Len(filteredData) :
               FieldDate(filteredData[i], key) = DateOfChars(BoundText(filters[key].value))
        /\ \E i \in 1..Len(filteredData) :
               FieldDate(filteredData[i], key) = DateOfChars(BoundText(filters[key].value2))
        /\ \E i \in 1..Len(data) :
               Before(FieldDate(data[i], key), DateOfChars(BoundText(filters[key].value)))

\* the columns whose filter cell is an integer filter
IntegerFilterKeys == {key \in ColKeys : FilterCell(ColumnOf(key)) = "integer"}

\* what the integer filter entry e of column key asks of a row, for a filter
\* value that is a number
IntegerClause(e, key, row) ==
    LET field == Number(row[key])
        v     == NumberOfChars(BoundText(e.value))
    IN  IF BoundText(e.value) = <<>> \/ e.op \notin IntOps THEN TRUE
        ELSE /\ field.t = "number"
             /\ \/ e.op = "=" /\ field.n = v.n
                \/ e.op = "<" /\ field.n < v.n
                \/ e.op = ">" /\ field.n > v.n

\* C19: with an operator =, < or > and a filter value that is a number, 0
\* included, the integer filter of a column keeps, of the rows the other
\* filters keep and in their order, exactly those whose field as a number
\* (Number(field), which is 0 for null and NaN for a missing field) stands in
\* that relation to the value; with no value it keeps every row.
C19_IntegerFilter ==
    \A key \in IntegerFilterKeys :
        (BoundText(filters[key].value) = <<>> \/ NumberOfChars(BoundText(filters[key].value)) # NaN)
            => filteredData =
                   SelectSeq(FilteredData(data, search, Unset(filters, key), visibleCols),
                             LAMBDA row : IntegerClause(filters[key], key, row))

\* the filter "> 0" is in force and keeps some rows and drops others
C19_Witness ==
    \E key \in IntegerFilterKeys :
        /\ filters[key].op = ">"
        /\ BoundText(filters[key].value) = <<"0">>
        /\ Len(filteredData) > 0
        /\ Len(filteredData) < Len(data)

\* C20: the dropdown filter of a column keeps, of the rows the other filters
\* keep, exactly those whose field as a string is one of the selected options
\* when some option is selected, and every row when none is selected, also
\* after options were selected and deselected again.
C20_DropdownFilter ==
    \A key \in DropdownKeys :
        filteredData =
            SelectSeq(FilteredData(data, search, Unset(filters, key), visibleCols),
                      LAMBDA row :
                          \/ SelectedSet(filters, key) = {}
                          \/ String(row[key]) \in SelectedSet(filters, key))

-----------------------------------------------------------------------------
(* Global search and column visibility.                                    *)

SearchNext ==
    \/ RunEffects
    \/ ToggleShowFilters
    \/ \E s \in SearchInputs : SetSearch(s)
    \/ \E key \in ColKeys : handleColToggle(key)
    \/ handleSelectAll
    \/ \E key \in ColKeys, v \in TextInputs : TextFilterChange(key, v)
    \/ \E key \in ColKeys, v \in IntInputs : IntValueChange(key, v)

SpecSearch == Init /\ [][SearchNext]_vars

\* Every event of the component; the specifications above are its
\* restrictions to the controls a property is about.
-----------------------------------------------------------------------------
(* Sorting.                                                                *)

SortNext ==
    \/ RunEffects
    \/ ToggleShowFilters
    \/ \E key \in ColKeys : HeaderClick(key)
    \/ \E s \in SearchInputs : SetSearch(s)
    \/ \E v \in TextInputs : TextFilterChange("name", v)
    \/ \E n \in RowsPerPageOptions : SetRowsPerPage(n)
    \/ PreviousPage
    \/ NextPage

SpecSort == Init /\ [][SortNext]_vars

NullField(row, key) == row[key] \in {Null, Undefined}

\* C11: under any sort column and in both directions, every row whose sort
\* field is null or absent comes after every row whose sort field is not null
\* in the sorted rows.
C11_NullsSortLast ==
    LET sorted == sortedData IN
    sort # NoSort =>
        \A i, j \in 1..Len(sorted) :
            (NullField(sorted[i], sort.key) /\ ~NullField(sorted[j], sort.key))
                => j < i

\* a descending sort of rows in which a row without the field precedes a row
\* with it
C11_Witness ==
    /\ sort # NoSort
    /\ sort.direction = "desc"
    /\ \E i, j \in 1..Len(filteredData) :
           /\ i < j
           /\ NullField(filteredData[i], sort.key)
           /\ ~NullField(filteredData[j], sort.key)

\* index of the row with this id in rows
PositionOf(rows, id) == CHOOSE i \in 1..Len(rows) : rows[i].id = id

\* equal sort keys: both fields null or absent, or the comparator answers 0
EqualKeys(a, b, s) ==
    \/ NullField(a, s.key) /\ NullField(b, s.key)
    \/ ~NullField(a, s.key) /\ ~NullField(b, s.key) /\ comparefn(a, b, s) = 0

\* C12: the sort is stable: two rows with equal sort keys, two rows whose sort
\* field is null included, are in the sorted rows in the order they have in
\* the filtered rows, in both directions.
C12_SortStable ==
    LET sorted   == sortedData
        filtered == filteredData
    IN  sort # NoSort =>
            \A i, j \in 1..Len(filtered) :
                (i < j /\ EqualKeys(filtered[i], filtered[j], sort)) =>
                    PositionOf(sorted, filtered[i].id) < PositionOf(sorted, filtered[j].id)

\* the sort values of the rows whose sort field is not null, in row order
NonNullValues(rows, key) ==
    LET kept == SelectSeq(rows, LAMBDA r : ~NullField(r, key))
    IN  [i \in 1..Len(kept) |-> kept[i][key]]

\* v comes no later than w: numerically when both are numbers, otherwise by
\* their string representations
ValueNotAfter(v, w) ==
    IF v.t = "number" /\ w.t = "number" THEN v.n <= w.n
    ELSE localeCompare(String(v), String(w)) <= 0

\* C23: under an active sort on a column, the non-null sort values of the
\* ascending result are in order (two numbers numerically, the smaller first,
\* anything else by the string representations), and the non-null sort values
\* of the descending result are those of the ascending result in reverse;
\* with no active sort the sorted rows are the filtered rows as they are.
C23_SortComparison ==
    LET filtered == filteredData
        sorted   == sortedData
    IN  IF sort = NoSort THEN sorted = filtered
        ELSE LET other  == SortedData(engine, filtered,
                               SortBy(sort.key, IF sort.direction = "asc" THEN "desc" ELSE "asc"))
                 ascending  == NonNullValues(IF sort.direction = "asc" THEN sorted ELSE other, sort.key)
                 descending == NonNullValues(IF sort.direction = "asc" THEN other ELSE sorted, sort.key)
             IN  /\ \A i, j \in 1..Len(ascending) :
                        i < j => ValueNotAfter(ascending[i], ascending[j])
                 /\ descending = Reverse(ascending)

\* a descending sort by a numeric column of at least three rows that have the
\* field, not all of one value, which are not in descending order as filtered
C23_Witness ==
    /\ sort # NoSort
    /\ sort.direction = "desc"
    /\ sort.key = "age"
    /\ Len(NonNullValues(filteredData, "age")) >= 3
    /\ \E i, j \in 1..Len(NonNullValues(filteredData, "age")) :
           /\ i < j
           /\ NonNullValues(filteredData, "age")[i].n < NonNullValues(filteredData, "age")[j].n
    /\ sortedData # filteredData

\* the sort is no sort or one column with one direction
OneSortColumn ==
    \/ sort = NoSort
    \/ /\ DOMAIN sort = {"key", "direction"}
       /\ sort.key \in ColKeys
       /\ sort.direction \in {"asc", "desc"}

\* the sort after n clicks in a row on the header of one column
RECURSIVE ClickedTimes(_, _, _)
ClickedTimes(prev, key, n) ==
    IF n = 0 THEN prev ELSE NextSort(ClickedTimes(prev, key, n - 1), key)

\* C24: the sort is always no sort or a single column with a direction; a
\* click on the header of a column that is not the sort column sorts by that
\* column ascending, a click on the header of the sort column turns ascending
\* into descending and descending into no sort; three clicks on one header
\* that start with no sort end with no sort.
C24_SortStateMachine ==
    /\ []OneSortColumn
    /\ [][\A key \in ColKeys :
             HeaderClick(key) =>
                 IF sort = NoSort \/ sort.key # key
                 THEN sort' = [key |-> key, direction |-> "asc"]
                 ELSE IF sort.direction = "asc"
                      THEN sort' = [key |-> key, direction |-> "desc"]
                      ELSE sort' = NoSort]_vars
    /\ [](\A key \in ColKeys :
             /\ ClickedTimes(NoSort, key, 1) = [key |-> key, direction |-> "asc"]
             /\ ClickedTimes(NoSort, key, 2) = [key |-> key, direction |-> "desc"]
             /\ ClickedTimes(NoSort, key, 3) = NoSort)

\* the header of one column clicked twice: that column descending, which the
\* third click removes
C24_Witness ==
    /\ NoPending
    /\ sort = [key |-> "level", direction |-> "desc"]
    /\ ENABLED HeaderClick("level")

\* page numbers above pageCount that are looked at
PagesBeyond == 2

\* the page slices of pages p..last, one after the other
RECURSIVE PagesFrom(_, _, _, _)
PagesFrom(rows, perPage, p, last) ==
    IF p > last THEN <<>>
    ELSE PageSlice(rows, perPage, p) \o PagesFrom(rows, perPage, p + 1, last)

\* C13: at the current page size the page slices of pages 1..pageCount, one
\* after the other, are exactly the sorted rows, no row twice and none left
\* out, and the slice of every page above pageCount is empty.
C13_PagesCoverRows ==
    LET rows == sortedData IN
    /\ PagesFrom(rows, rowsPerPage, 1, PageCount(rows, rowsPerPage)) = rows
    /\ \A p \in (PageCount(rows, rowsPerPage) + 1)..(PageCount(rows, rowsPerPage) + PagesBeyond) :
           PageSlice(rows, rowsPerPage, p) = <<>>

\* sorted rows on more than one page, the last page not full, the second shown
C13_Witness ==
    /\ sort # NoSort
    /\ sortedData # filteredData
    /\ pageCount > 1
    /\ Len(sortedData) % rowsPerPage # 0
    /\ page = 2
    /\ pagedData # <<>>

-----------------------------------------------------------------------------
(* The column chooser.                                                     *)

ColumnsNext ==
    \/ RunEffects
    \/ ToggleShowFilters
    \/ \E key \in ColKeys : handleColToggle(key)
    \/ handleSelectAll

SpecColumns == Init /\ [][ColumnsNext]_vars

\* the number before "px" in a width, in tenths of a pixel (widths are given
\* with at most one decimal)
PxTenths(width) ==
    LET number == SubSeq(width, 1, Len(width) - 2)
        whole  == DigitPrefix(number)
        rest   == SubSeq(number, Len(whole) + 1, Len(number))
    IN  IF rest = <<>> THEN 10 * DigitsToNat(whole)
        ELSE 10 * DigitsToNat(whole) + DigitVal(rest[2])

\* the resolved width of a column in tenths of a pixel: the explicit pixel
\* width as it is, the fallback for a percentage or an absent width
ResolvedWidthTenths(col) ==
    IF col.width # <<>> /\ endsWith(col.width, <<"p", "x">>) THEN PxTenths(col.width)
    ELSE 10 * FallbackWidth

\* sum of the resolved widths of the first n displayed columns
RECURSIVE OffsetTenths(_, _)
OffsetTenths(cols, n) ==
    IF n = 0 THEN 0 ELSE OffsetTenths(cols, n - 1) + ResolvedWidthTenths(cols[n])

\* a length in tenths of a pixel as CSS text
PxText(tenths) ==
    NatToChars(tenths \div 10)
        \o (IF tenths % 10 = 0 THEN <<>> ELSE <<".">> \o NatToChars(tenths % 10))
        \o <<"p", "x">>

\* C21: the displayed column at index i < stickyColumnCount is pinned with a
\* left offset that is the sum of the resolved widths of the displayed columns
\* before it (0 for the first); a displayed column at an index >=
\* stickyColumnCount gets no position and no offset.
C21_StickyOffset ==
    LET cols == VisibleColumns(visibleCols) IN
    \A idx \in 0..(Len(cols) - 1) :
        IF idx < stickyColumnCount
        THEN /\ CellStyle(cols, idx, stickyColumnCount).position = <<"s", "t", "i", "c", "k", "y">>
             /\ CellStyle(cols, idx, stickyColumnCount).left = PxText(OffsetTenths(cols, idx))
        ELSE /\ CellStyle(cols, idx, stickyColumnCount).position = NoValue
             /\ CellStyle(cols, idx, stickyColumnCount).left = NoValue

\* C22: a column declared with sticky: true is pinned wherever it is
\* displayed.
C22_StickyFlagPins ==
    LET cols == VisibleColumns(visibleCols) IN
    \A idx \in 0..(Len(cols) - 1) :
        cols[idx + 1].sticky = "true" =>
            CellStyle(cols, idx, stickyColumnCount).position = <<"s", "t", "i", "c", "k", "y">>

\* the position of a declared column in `columns`
DeclaredAt(key) == CHOOSE i \in ColIndex : columns[i].key = key

InDeclarationOrder(cols) ==
    \A i, j \in 1..Len(cols) : i < j => DeclaredAt(cols[i].key) < DeclaredAt(cols[j].key)

\* C17: the visible set starts as the declared keys without the default-hidden
\* ones; it stays a subset of the declared keys; a toggle of a key flips the
\* membership of that key and of no other; select-all makes it empty or all
\* declared keys; the rendered columns are in declaration order.
C17_VisibleColumnSet ==
    /\ visibleCols = ColKeys \ defaultHiddenColumns
    /\ \A hidden \in SUBSET ColKeys : InitialVisible(hidden) = ColKeys \ hidden
    /\ [][/\ visibleCols' \subseteq ColKeys
          /\ \A key \in ColKeys :
                 handleColToggle(key) =>
                     /\ key \in visibleCols' <=> key \notin visibleCols
                     /\ \A other \in ColKeys \ {key} :
                            other \in visibleCols' <=> other \in visibleCols
          /\ handleSelectAll =>
                 visibleCols' = (IF visibleCols = ColKeys THEN {} ELSE ColKeys)
          /\ InDeclarationOrder(VisibleColumns(visibleCols'))
          /\ SetOf(VisibleColumns(visibleCols')) = {ColumnOf(key) : key \in visibleCols'}]_vars

\* toggles have left two of the declared columns visible, with the filter row
\* rendered for them
C17_Witness ==
    /\ Cardinality(visibleCols) = 2
    /\ Len(VisibleColumns(visibleCols)) = 2
    /\ showFilters

Next ==
    PopoverNext \/ PagingNext \/ FilterNext \/ SearchNext \/ SortNext \/ ColumnsNext

Spec == Init /\ [][Next]_vars

\* column key is shown and its filter entry has a value
HidesFilteredColumn(key) ==
    key \in visibleCols /\ FTruthy(filters[key].value) /\ handleColToggle(key)

C9_HiddenColumnFilterIdle ==
    \A key \in ColKeys \ visibleCols :
        filteredData = FilteredData(data, search, Unset(filters, key), visibleCols)

\* C10: with search text that is not blank, exactly the rows survive the global
\* search that hold the trimmed search text, case-insensitively, in the string
\* of a visible column; blank search text filters nothing.
C10_SearchTrimmedVisible ==
    GlobalSearch(data, search, visibleCols) =
        IF trim(search) = <<>> THEN data
        ELSE SelectSeq(data, LAMBDA row :
                 \E key \in visibleCols :
                     includes(toLowerCase(String(row[key])), toLowerCase(trim(search))))

====
